---------------------------- MODULE Spec2Model ----------------------------
(***************************************************************************)
(* A model of skipi (src/skipi/function.py, src/skipi/parameter.py):       *)
(* Functions as (domain, relation) objects on a heap, the lazily composed  *)
(* relations, the reconstruction step to_function, the process-wide        *)
(* interpolation kind, and ParametrizedFunction.                           *)
(*                                                                         *)
(* Numbers.  Coordinates of domains are integers: multiples of a grid unit *)
(* that is larger than the tolerance of numpy.isclose, so that "close"     *)
(* coincides with "equal" on differences of coordinates.  Function values  *)
(* are complex numbers with exact rational real and imaginary parts, so    *)
(* that floating point rounding plays no role.  A rational with            *)
(* denominator 0 stands for a value outside these exact numbers: one that  *)
(* is not finite (numpy's inf/nan), or whose numerator or denominator is   *)
(* larger than MaxNum.                                                     *)
(***************************************************************************)
EXTENDS Integers, Sequences, FiniteSets, TLC

(* ------------------------------ bounds --------------------------------- *)
\* largest coordinate of a domain point
MaxCoord == 3
\* longest domain
MaxLen == 3
\* most objects on the heap
MaxObjs == 3
\* most Functions built from raw samples (Function.to_function)
MaxTables == 1
\* most Functions built from closed forms before the operators combine them
MaxSources == 2
\* most objects on the heap while Functions are remeshed
MaxMeshed == 2
\* largest numerator and denominator of an exact number
MaxNum == 10000
\* most calls of set_interpolation_type
MaxSets == 2
\* longest parameter vector and longest list of parameter names
MaxParams == 2
\* the objects of the aliasing scenario: a Function and the ones derived from it
MaxAliased == 2

(* --------------------------- exact numbers ----------------------------- *)
Abs(a) == IF a < 0 THEN -a ELSE a

RECURSIVE GCD(_, _)
GCD(a, b) == IF b = 0 THEN a ELSE GCD(b, a % b)

NaNQ == [n |-> 0, d |-> 0]

Q(n, d) ==
    IF d = 0 THEN NaNQ
    ELSE LET g == GCD(Abs(n), Abs(d))
             s == IF d < 0 THEN -1 ELSE 1
         IN  IF Abs(n) \div g > MaxNum \/ Abs(d) \div g > MaxNum THEN NaNQ
             ELSE [n |-> (s * n) \div g, d |-> (s * d) \div g]

QInt(i) == [n |-> i, d |-> 1]
QFinite(a) == a.d # 0
QAdd(a, b) == IF a.d = 0 \/ b.d = 0 THEN NaNQ ELSE Q(a.n * b.d + b.n * a.d, a.d * b.d)
QNeg(a) == IF a.d = 0 THEN NaNQ ELSE [n |-> -a.n, d |-> a.d]
QSub(a, b) == QAdd(a, QNeg(b))
QMul(a, b) == IF a.d = 0 \/ b.d = 0 THEN NaNQ ELSE Q(a.n * b.n, a.d * b.d)
QDiv(a, b) == IF a.d = 0 \/ b.d = 0 \/ b.n = 0 THEN NaNQ ELSE Q(a.n * b.d, a.d * b.n)
\* a < 0, a > 0 (false of a value that is not finite)
QNegative(a) == a.d # 0 /\ a.n < 0
QPositive(a) == a.d # 0 /\ a.n > 0

\* complex numbers re + 1j*im
Cx(re, im) == [re |-> re, im |-> im]
CInt(i) == Cx(QInt(i), QInt(0))
CZero == CInt(0)
COne == CInt(1)
CJ == Cx(QInt(0), QInt(1))
CNaN == Cx(NaNQ, NaNQ)
CFinite(a) == QFinite(a.re) /\ QFinite(a.im)
CAdd(a, b) == Cx(QAdd(a.re, b.re), QAdd(a.im, b.im))
CSub(a, b) == Cx(QSub(a.re, b.re), QSub(a.im, b.im))
CNeg(a) == Cx(QNeg(a.re), QNeg(a.im))
CMul(a, b) == Cx(QSub(QMul(a.re, b.re), QMul(a.im, b.im)),
                 QAdd(QMul(a.re, b.im), QMul(a.im, b.re)))
CDiv(a, b) ==
    LET den == QAdd(QMul(b.re, b.re), QMul(b.im, b.im))
    IN  Cx(QDiv(QAdd(QMul(a.re, b.re), QMul(a.im, b.im)), den),
           QDiv(QSub(QMul(a.im, b.re), QMul(a.re, b.im)), den))

RECURSIVE CPowNat(_, _)
CPowNat(a, k) ==
    IF k = 0 THEN COne
    ELSE IF k % 2 = 0 THEN LET h == CPowNat(a, k \div 2) IN CMul(h, h)
    ELSE CMul(a, CPowNat(a, k - 1))

\* a ** b, exact for an integer exponent; any other exponent gives a value
\* outside the exact numbers of the model
CPow(a, b) ==
    IF ~(CFinite(a) /\ CFinite(b)) \/ b.im.n # 0 \/ b.re.d # 1 THEN CNaN
    ELSE IF b.re.n >= 0 THEN CPowNat(a, b.re.n)
    ELSE CDiv(COne, CPowNat(a, -b.re.n))

(* ------------------------------ values --------------------------------- *)
(* A Python value is a record tagged by k:                                 *)
(*   "array"    v: a list / numpy array of numbers                         *)
(*   "int", "float", "complex"   v: a scalar                               *)
(*   "str"      some object that is neither a number nor callable          *)
(*   "Function" id: a reference to a Function object on the heap           *)
(*   anything else is a plain callable, a relation:                        *)
(*   "lambda"   name: a closed form given by the caller                    *)
(*   "scaled"   m: lambda x: m * x, made by a relation factory             *)
(*   "zero"     lambda x: 0                        (function.py:493)       *)
(*   "interp"   x, real, imag, kind: lambda x: real(x) + 1j * imag(x)      *)
(*                                                 (function.py:502-507)   *)
(*   "binF"     op, self, other: lambda x: self._f(x) op other.get_function()(x) *)
(*   "binS"     op, self, c:     lambda x: self._f(x) op c                 *)
(*   "neg"      f: lambda x: -f(x)                                         *)
(*   "shifted"  f, offset: lambda x: f(x - offset)                         *)
(*   "applied"  function, f: lambda x: function(f(x))                      *)
(*   "composed" f, function: lambda x: f(function(x))                      *)
(* self and other are heap references: the lambdas of the binary operators *)
(* close over the objects, and read their relation when they are called.   *)
(***************************************************************************)
(* State.                                                                  *)
(*   heap   the objects built so far, in order of construction; an object  *)
(*          has cls, dom (_dom) and f (_f), a ParametrizedFunction also    *)
(*          dom_factory, f_factory, param_names and params                 *)
(*   FUNCTION_INTERPOLATION_TYPE   the module's global (function.py:7)     *)
(*   ret    the last call: its name, receiver, arguments and outcome       *)
(*   born   per object, the call that built it and the interpolation kind  *)
(*          in effect at that moment (history, not read by the program)    *)
(*   setCalls   the arguments of the set_interpolation_type calls so far   *)
(*          (history, not read by the program)                             *)
(*   heap0  the heap before the last call (history, not read by the        *)
(*          program)                                                       *)
(***************************************************************************)
VARIABLES heap, FUNCTION_INTERPOLATION_TYPE, ret, born, setCalls, heap0

vars == <<heap, FUNCTION_INTERPOLATION_TYPE, ret, born, setCalls, heap0>>

None == [k |-> "None"]
Array(v) == [k |-> "array", v |-> v]
Ref(id) == [k |-> "Function", id |-> id]
Scalar(t, c) == [k |-> t, v |-> c]

\* Python's callable(): plain callables and Function objects (__call__)
callable(v) == v.k \notin {"array", "int", "float", "complex", "str", "None"}

\* isinstance(v, Function)
IsFunction(v) == v.k = "Function"

\* the outcome of a call: an exception, or a returned value
Raise(e) == [exc |-> e, val |-> None]
Return(v) == [exc |-> "", val |-> v]

Range(s) == {s[i] : i \in DOMAIN s}

(* ------------------------- scipy's interp1d ---------------------------- *)
\* the smallest index whose knot is >= x_new (numpy.searchsorted, side left)
searchsorted(x, x_new) ==
    LET above == {j \in DOMAIN x : x[j] >= x_new}
    IN  IF above = {} THEN Len(x) + 1
        ELSE CHOOSE j \in above : \A l \in above : j <= l

InterpNearest(x, y, x_new) ==
    y[1 + Cardinality({j \in 1..(Len(x) - 1) : x[j] + x[j + 1] < 2 * x_new})]

\* interp1d(x, y, kind=kind, fill_value=(0, 0), bounds_error=False)(x_new),
\* for knots x in increasing order
InterpLinear(x, y, x_new) ==
    LET s  == searchsorted(x, x_new)
        hi == IF s < 2 THEN 2 ELSE IF s > Len(x) THEN Len(x) ELSE s
        lo == hi - 1
        slope == QDiv(QSub(y[hi], y[lo]), QInt(x[hi] - x[lo]))
    IN  QAdd(QMul(slope, QInt(x_new - x[lo])), y[lo])

interp1d(x, y, kind, x_new) ==
    IF x_new < x[1] \/ x_new > x[Len(x)] THEN QInt(0)
    ELSE IF kind = "nearest" THEN InterpNearest(x, y, x_new)
    ELSE InterpLinear(x, y, x_new)

(* ----------------------- calling a relation ---------------------------- *)
BinaryOp(op, a, b) ==
    CASE op = "add" -> CAdd(a, b)
      [] op = "sub" -> CSub(a, b)
      [] op = "mul" -> CMul(a, b)
      [] op = "truediv" -> CDiv(a, b)
      [] op = "pow" -> CPow(a, b)

\* a caller's closed form applied to a value
LambdaAt(function, v) ==
    CASE function.name = "ident" -> v
      [] function.name = "square" -> CMul(v, v)

\* a caller's closed form applied to a coordinate
LambdaOnGrid(function, x) ==
    CASE function.name = "ident" -> x
      [] function.name = "square" -> x * x

\* rel(x) with the heap hp; x is a coordinate
RECURSIVE Call(_, _, _)
Call(rel, x, hp) ==
    CASE rel.k = "lambda" ->
            (CASE rel.name = "ident" -> CInt(x)
               [] rel.name = "square" -> CInt(x * x))
      [] rel.k = "scaled" -> CMul(rel.m, CInt(x))
      [] rel.k = "zero" -> CZero
      [] rel.k = "interp" ->
            Cx(interp1d(rel.x, rel.real, rel.kind, x),
               interp1d(rel.x, rel.imag, rel.kind, x))
      [] rel.k = "binF" ->
            BinaryOp(rel.op, Call(hp[rel.self].f, x, hp), Call(hp[rel.other].f, x, hp))
      [] rel.k = "binS" ->
            BinaryOp(rel.op, Call(hp[rel.self].f, x, hp), rel.c)
      [] rel.k = "neg" -> CNeg(Call(rel.f, x, hp))
      [] rel.k = "shifted" -> Call(rel.f, x - rel.offset, hp)
      [] rel.k = "applied" -> LambdaAt(rel.function, Call(rel.f, x, hp))
      [] rel.k = "composed" -> Call(rel.f, LambdaOnGrid(rel.function, x), hp)

\* rel applied to an array of coordinates
CallArray(rel, xs, hp) == [i \in 1..Len(xs) |-> Call(rel, xs[i], hp)]

(* --------------------------- class Function ---------------------------- *)
\* the exceptions the classes raise themselves
ERR_DOMAIN == "RuntimeWarning: Given domain is not equidistantly spaced"
ERR_CALLABLE == "RuntimeError: function must be callable"
ERR_PARAMS == "RuntimeError: Number of given parameters does not match the expected number"

\* numpy.diff of a one-dimensional array
diff(v) == [i \in 1..(Len(v) - 1) |-> v[i + 1] - v[i]]

\* Function.is_evenly_spaced_domain: True, False, or the exception of
\* numpy.diff (an argument with no dimension) or of diff[0] (an empty diff)
is_evenly_spaced_domain(domain) ==
    IF domain.k # "array" THEN Raise("ValueError")
    ELSE LET d == diff(domain.v)
         IN  IF Len(d) = 0 THEN Raise("IndexError")
             ELSE Return(\A i \in 1..Len(d) : d[i] - d[1] = 0)

\* Function.__init__ with the relation checked before the domain
Function__init__relation_first(domain, function_callable) ==
    LET even == is_evenly_spaced_domain(domain)
    IN  IF ~callable(function_callable) THEN Raise(ERR_CALLABLE)
        ELSE IF even.exc # "" THEN even
        ELSE IF ~even.val THEN Raise(ERR_DOMAIN)
        ELSE Return([dom |-> domain.v,
                     f |-> IF IsFunction(function_callable)
                           THEN heap[function_callable.id].f
                           ELSE function_callable])

\* Function.__init__: the fields it sets on self, or the exception it raises
Function__init__(domain, function_callable) ==
    LET even == is_evenly_spaced_domain(domain)
    IN  IF even.exc # "" THEN even
        ELSE IF ~even.val THEN Raise(ERR_DOMAIN)
        ELSE IF ~callable(function_callable) THEN Raise(ERR_CALLABLE)
        ELSE Return([dom |-> domain.v,
                     f |-> IF IsFunction(function_callable)
                           THEN heap[function_callable.id].f
                           ELSE function_callable])

\* Function(domain, function_callable): the new object, or the exception
Function(domain, function_callable) ==
    LET r == Function__init__(domain, function_callable)
    IN  IF r.exc # "" THEN r
        ELSE Return([cls |-> "Function", dom |-> r.val.dom, f |-> r.val.f])

get_domain(self) == heap[self].dom

get_function(self) == heap[self].f

\* Function.eval: self(self.get_domain())
eval(self) == CallArray(heap[self].f, get_domain(self), heap)

get_dx(domain) == IF Len(domain) < 2 THEN 0 ELSE domain[2] - domain[1]

\* to_function with its default kind fixed when the module is loaded
to_function_default_at_definition(x_space, feval, interpolation) ==
    LET kind == IF interpolation = "None" THEN "linear" ELSE interpolation
        samples == IF callable(feval) THEN CallArray(feval, x_space, heap)
                   ELSE feval.v
    IN  IF Len(x_space) = 0 THEN [k |-> "zero"]
        ELSE [k |-> "interp", x |-> x_space,
              real |-> [i \in 1..Len(x_space) |-> samples[i].re],
              imag |-> [i \in 1..Len(x_space) |-> samples[i].im],
              kind |-> kind]

\* the module's to_function(x_space, feval, interpolation=None, to_zero=True);
\* feval is a callable or an array of len(x_space) samples, interpolation a
\* kind or "None"
to_function(x_space, feval, interpolation) ==
    LET kind == IF interpolation = "None" THEN FUNCTION_INTERPOLATION_TYPE
                ELSE interpolation
        samples == IF callable(feval) THEN CallArray(feval, x_space, heap)
                   ELSE feval.v
    IN  IF Len(x_space) = 0 THEN [k |-> "zero"]
        ELSE [k |-> "interp", x |-> x_space,
              real |-> [i \in 1..Len(x_space) |-> samples[i].re],
              imag |-> [i \in 1..Len(x_space) |-> samples[i].im],
              kind |-> kind]

\* classmethod Function.to_function(domain, feval)
Function_to_function(domain, feval) ==
    Function(domain, to_function(domain.v, feval, "None"))

\* remesh reconstructing on the Function's own domain
remesh_on_own_domain(self, new_mesh) ==
    Function(new_mesh, to_function(heap[self].dom, heap[self].f, "None"))

\* Function.remesh
remesh(self, new_mesh) ==
    Function(new_mesh,
             to_function(new_mesh.v,
                         Array(CallArray(heap[self].f, new_mesh.v, heap)), "None"))

\* Function.reinterpolate: the new value of self._f
reinterpolate(self) == to_function(heap[self].dom, heap[self].f, "None")

\* Function._is_number; numpy.complex and numpy.float are the builtin
\* complex and float
_is_number(other) ==
    other.k = "int" \/ other.k = "float" \/ other.k = "complex" \/ other.k = "float"

\* __add__ building the sum on the domain of the right operand
__add__on_other_domain(self, other) ==
    IF IsFunction(other)
    THEN [exc |-> "",
          val |-> [cls |-> "Function", dom |-> heap[other.id].dom,
                   f |-> [k |-> "binF", op |-> "add", self |-> self, other |-> other.id]]]
    ELSE IF other.k = "int" \/ other.k = "float" \/ other.k = "complex"
    THEN [exc |-> "",
          val |-> [cls |-> "Function", dom |-> heap[self].dom,
                   f |-> [k |-> "binS", op |-> "add", self |-> self, c |-> other.v]]]
    ELSE [exc |-> "", val |-> None]

__add__(self, other) ==
    IF IsFunction(other)
    THEN Function(Array(heap[self].dom),
                  [k |-> "binF", op |-> "add", self |-> self, other |-> other.id])
    ELSE IF _is_number(other)
    THEN Function(Array(heap[self].dom),
                  [k |-> "binS", op |-> "add", self |-> self, c |-> other.v])
    ELSE Return(None)

__sub__(self, other) ==
    IF IsFunction(other)
    THEN Function(Array(heap[self].dom),
                  [k |-> "binF", op |-> "sub", self |-> self, other |-> other.id])
    ELSE IF _is_number(other)
    THEN Function(Array(heap[self].dom),
                  [k |-> "binS", op |-> "sub", self |-> self, c |-> other.v])
    ELSE Return(None)

__pow__(self, power) ==
    IF IsFunction(power)
    THEN Function(Array(heap[self].dom),
                  [k |-> "binF", op |-> "pow", self |-> self, other |-> power.id])
    ELSE IF _is_number(power)
    THEN Function(Array(heap[self].dom),
                  [k |-> "binS", op |-> "pow", self |-> self, c |-> power.v])
    ELSE Return(None)

__mul__(self, other) ==
    IF IsFunction(other)
    THEN Function(Array(heap[self].dom),
                  [k |-> "binF", op |-> "mul", self |-> self, other |-> other.id])
    ELSE IF _is_number(other)
    THEN Function(Array(heap[self].dom),
                  [k |-> "binS", op |-> "mul", self |-> self, c |-> other.v])
    ELSE Return(None)

__truediv__(self, other) ==
    IF IsFunction(other)
    THEN Function(Array(heap[self].dom),
                  [k |-> "binF", op |-> "truediv", self |-> self, other |-> other.id])
    ELSE IF _is_number(other)
    THEN Function(Array(heap[self].dom),
                  [k |-> "binS", op |-> "truediv", self |-> self, c |-> other.v])
    ELSE Return(None)

__neg__(self) ==
    Function(Array(heap[self].dom), [k |-> "neg", f |-> heap[self].f])

\* Function.copy
copy(self) == Function(Array(heap[self].dom), heap[self].f)

\* Function.shift(offset, domain=False)
shift(self, offset, domain) ==
    LET dom == IF domain THEN [i \in DOMAIN heap[self].dom |-> heap[self].dom[i] + offset]
               ELSE heap[self].dom
    IN  Function(Array(dom), [k |-> "shifted", f |-> heap[self].f, offset |-> offset])

\* Function.apply
apply(self, function) ==
    Function(Array(heap[self].dom),
             [k |-> "applied", function |-> function, f |-> heap[self].f])

\* Function.composeWith
composeWith(self, function) ==
    Function(Array(heap[self].dom),
             [k |-> "composed", f |-> heap[self].f, function |-> function])

\* the loop of Function.find_zeros from the i-th domain point on
RECURSIVE find_zeros_loop(_, _, _)
find_zeros_loop(self, i, f0) ==
    IF i > Len(heap[self].dom) THEN <<>>
    ELSE LET el == heap[self].dom[i]
             fn == Call(heap[self].f, el, heap)
         IN  IF QNegative(QMul(f0.re, fn.re))
             THEN <<el>> \o find_zeros_loop(self, i + 1, fn)
             ELSE find_zeros_loop(self, i + 1, f0)

find_zeros(self) ==
    IF Len(heap[self].dom) = 0 THEN Raise("IndexError")
    ELSE Return(find_zeros_loop(self, 1,
                                Call(heap[self].f, heap[self].dom[1], heap)))

\* set_interpolation_type: the new global and the returned previous type
set_interpolation_type(interpolation_type) ==
    [global |-> interpolation_type, previous_type |-> FUNCTION_INTERPOLATION_TYPE]

(* --------------------------- class Integral ---------------------------- *)
\* Python's builtin any(): its argument must be iterable
any(v) ==
    IF v.k = "array" THEN Return(\E i \in DOMAIN v.v : v.v[i])
    ELSE Raise("TypeError")

\* `v is None`
is_None(v) == v.k = "None"

\* scipy.integrate.trapz(y, dx=dx)
RECURSIVE trapz_from(_, _, _)
trapz_from(y, dx, i) ==
    IF i >= Len(y) THEN CZero
    ELSE CAdd(CMul(CInt(dx), CDiv(CAdd(y[i], y[i + 1]), CInt(2))),
              trapz_from(y, dx, i + 1))

trapz(y, dx) == trapz_from(y, dx, 1)

\* skipi.util.vslice(domain, (x0, x1)): the points of domain in [x0, x1],
\* None meaning no bound on that side
vslice(domain, x0, x1) ==
    SelectSeq(domain, LAMBDA p : (is_None(x0) \/ x0.v <= p) /\ (is_None(x1) \/ p <= x1.v))

\* Integral.integrate(fun, x0, x1)
Integral_integrate(fun, x0, x1) ==
    LET unbounded == any([k |-> "bool", v |-> is_None(Array(<<x0, x1>>))])
    IN  IF unbounded.exc # "" THEN unbounded
        ELSE LET restricted ==
                     IF ~unbounded.val
                     THEN remesh(fun, Array(vslice(get_domain(fun), x0, x1)))
                     ELSE Return(heap[fun])
             IN  IF restricted.exc # "" THEN restricted
                 ELSE Return(trapz(CallArray(restricted.val.f, restricted.val.dom, heap),
                                   get_dx(restricted.val.dom)))

(* --------------------- class ParametrizedFunction ---------------------- *)
(* Factories are callables taking the parameter vector p:                  *)
(*   "linspace"  lambda p: numpy.linspace(0, p[0], 3), a domain factory    *)
(*   "slope"     lambda p: lambda x: p[-1] * x, a relation factory         *)
(*   "lambda x: domain"  the lambda of parameter.py:45; its free variable  *)
(*               domain is the local of __init__ that the same statement   *)
(*               rebinds to the lambda, so the call returns the lambda     *)
CallFactory(factory, p) ==
    CASE factory.name = "linspace" ->
            IF Len(p) = 0 THEN Raise("IndexError")
            ELSE Return(Array(<<0, p[1] \div 2, p[1]>>))
      [] factory.name = "slope" ->
            Return([k |-> "scaled", m |-> IF Len(p) = 0 THEN CNaN ELSE CInt(p[Len(p)])])
      [] factory.name = "lambda x: domain" -> Return(factory)

\* ParametrizedFunction.__init__ without the comparison of the two lengths
ParametrizedFunction_unchecked(domain, parametrized_function_callable, parameter_names, parameters) ==
    LET dom == CallFactory(domain, parameters)
        f == CallFactory(parametrized_function_callable, parameters)
    IN  IF ~callable(domain) \/ ~callable(parametrized_function_callable)
        THEN Raise(ERR_CALLABLE)
        ELSE IF dom.exc # "" THEN dom
        ELSE Return([cls |-> "ParametrizedFunction",
                     dom |-> dom.val.v, f |-> f.val,
                     dom_factory |-> domain,
                     f_factory |-> parametrized_function_callable,
                     param_names |-> parameter_names,
                     params |-> parameters])

\* ParametrizedFunction.__init__: the new object, or the exception
ParametrizedFunction(domain, parametrized_function_callable, parameter_names, parameters) ==
    LET dom_factory == IF ~callable(domain)
                       THEN [k |-> "lambda", name |-> "lambda x: domain"]
                       ELSE domain
    IN  IF ~callable(parametrized_function_callable) THEN Raise(ERR_CALLABLE)
        ELSE IF ~(Len(parameter_names) = Len(parameters)) THEN Raise(ERR_PARAMS)
        ELSE LET dom == CallFactory(dom_factory, parameters)
             IN  IF dom.exc # "" THEN dom
                 ELSE LET f == CallFactory(parametrized_function_callable, parameters)
                          super == Function__init__(dom.val, f.val)
                      IN  IF f.exc # "" THEN f
                          ELSE IF super.exc # "" THEN super
                          ELSE Return([cls |-> "ParametrizedFunction",
                                       dom |-> super.val.dom, f |-> super.val.f,
                                       dom_factory |-> dom_factory,
                                       f_factory |-> parametrized_function_callable,
                                       param_names |-> parameter_names,
                                       params |-> parameters])

\* reparametrize rebuilding with the parameters the object already has
reparametrize_old_parameters(self, params) ==
    ParametrizedFunction(heap[self].dom_factory, heap[self].f_factory,
                         heap[self].param_names, heap[self].params)

reparametrize(self, params) ==
    ParametrizedFunction(heap[self].dom_factory, heap[self].f_factory,
                         heap[self].param_names, params)

get_params(self) == heap[self].params

get_param_names(self) == heap[self].param_names

get_domain_factory(self) == heap[self].dom_factory

get_function_factory(self) == heap[self].f_factory

(* ------------------------------ inputs --------------------------------- *)
\* the interpolation kinds the callers choose from
Kinds == {"linear", "nearest"}

\* the domains the callers pass: increasing coordinates
IncSeqs(n) == {d \in [1..n -> 0..MaxCoord] : \A i \in 1..(n - 1) : d[i] < d[i + 1]}
Domains == UNION {IncSeqs(n) : n \in 0..MaxLen}

\* the grids handed to the reconstruction step: interp1d's least number of
\* knots depends on the scipy release, so one-point grids are left out
Meshes == {d \in Domains : Len(d) # 1}

\* the closed forms the callers pass as relations
Lambdas == {[k |-> "lambda", name |-> n] : n \in {"ident", "square"}}

\* the relation arguments of Function(domain, relation)
RelationArgs == Lambdas \cup {Scalar("int", COne)} \cup {Ref(i) : i \in DOMAIN heap}

\* the sample values of Function.to_function(domain, samples)
SampleVals == {CInt(-1), CInt(1), CJ}

\* the right operands of the binary operators
Operands ==
    {Ref(i) : i \in DOMAIN heap}
        \cup {Scalar("int", CInt(2)), Scalar("float", CInt(-1)), Scalar("complex", CJ),
              [k |-> "str"]}

\* the offsets of Function.shift
Offsets == {-1, 1}

\* the bounds of Integral.integrate
Limits == {None, Scalar("int", CInt(1)), Scalar("int", CInt(2))}

\* parameter vectors and name lists
ParamVals == {2, 4}
ParamVectors == UNION {[1..n -> ParamVals] : n \in 0..MaxParams}
NameLists == {SubSeq(<<"L", "m", "b", "c", "d">>, 1, n) : n \in 0..MaxParams}
DomainFactories == {[k |-> "lambda", name |-> "linspace"], Array(<<0, 1, 2>>)}
RelationFactories == {[k |-> "lambda", name |-> "slope"], Scalar("int", COne)}

(* ------------------------------ actions -------------------------------- *)
IsObject(v) == "cls" \in DOMAIN v

Tables == {i \in DOMAIN born : born[i].by = "Function.to_function"}

Init ==
    /\ heap = <<>>
    /\ FUNCTION_INTERPOLATION_TYPE = "linear"
    /\ ret = [op |-> "import", self |-> 0, args |-> <<>>, exc |-> "", val |-> None]
    /\ born = <<>>
    /\ setCalls = <<>>
    /\ heap0 = <<>>

\* the end of a call whose outcome r is a new object, None or an exception
Finish(op, self, args, r) ==
    /\ heap0' = heap
    /\ IF r.exc = "" /\ IsObject(r.val)
       THEN /\ heap' = Append(heap, r.val)
            /\ born' = Append(born, [by |-> op, kind |-> FUNCTION_INTERPOLATION_TYPE])
            /\ ret' = [op |-> op, self |-> self, args |-> args, exc |-> "",
                       val |-> Ref(Len(heap) + 1)]
       ELSE /\ heap' = heap
            /\ born' = born
            /\ ret' = [op |-> op, self |-> self, args |-> args, exc |-> r.exc,
                       val |-> None]
    /\ UNCHANGED <<FUNCTION_INTERPOLATION_TYPE, setCalls>>

\* the end of a call that returns a value and builds nothing
Answer(op, self, args, r) ==
    /\ heap0' = heap
    /\ ret' = [op |-> op, self |-> self, args |-> args, exc |-> r.exc, val |-> r.val]
    /\ UNCHANGED <<heap, born, FUNCTION_INTERPOLATION_TYPE, setCalls>>

Construct ==
    /\ Len(heap) < MaxObjs
    /\ \E domain \in Domains, rel \in RelationArgs :
          Finish("Function", 0, <<Array(domain), rel>>, Function(Array(domain), rel))

ToFunction ==
    /\ Len(heap) < MaxObjs
    /\ Cardinality(Tables) < MaxTables
    /\ \E domain \in Meshes :
          \E samples \in [1..Len(domain) -> SampleVals] :
             Finish("Function.to_function", 0, <<Array(domain), Array(samples)>>,
                    Function_to_function(Array(domain), Array(samples)))

Add ==
    /\ Len(heap) < MaxObjs
    /\ \E self \in DOMAIN heap, other \in Operands :
          Finish("__add__", self, <<other>>, __add__(self, other))

Sub ==
    /\ Len(heap) < MaxObjs
    /\ \E self \in DOMAIN heap, other \in Operands :
          Finish("__sub__", self, <<other>>, __sub__(self, other))

Pow ==
    /\ Len(heap) < MaxObjs
    /\ \E self \in DOMAIN heap, power \in Operands :
          Finish("__pow__", self, <<power>>, __pow__(self, power))

Mul ==
    /\ Len(heap) < MaxObjs
    /\ \E self \in DOMAIN heap, other \in Operands :
          Finish("__mul__", self, <<other>>, __mul__(self, other))

Truediv ==
    /\ Len(heap) < MaxObjs
    /\ \E self \in DOMAIN heap, other \in Operands :
          Finish("__truediv__", self, <<other>>, __truediv__(self, other))

Neg ==
    /\ Len(heap) < MaxObjs
    /\ \E self \in DOMAIN heap :
          Finish("__neg__", self, <<>>, __neg__(self))

Copy ==
    /\ Len(heap) < MaxObjs
    /\ \E self \in DOMAIN heap :
          Finish("copy", self, <<>>, copy(self))

Shift ==
    /\ Len(heap) < MaxObjs
    /\ \E self \in DOMAIN heap, offset \in Offsets, domain \in BOOLEAN :
          Finish("shift", self, <<offset, domain>>, shift(self, offset, domain))

Apply ==
    /\ Len(heap) < MaxObjs
    /\ \E self \in DOMAIN heap, function \in Lambdas :
          Finish("apply", self, <<function>>, apply(self, function))

ComposeWith ==
    /\ Len(heap) < MaxObjs
    /\ \E self \in DOMAIN heap, function \in Lambdas :
          Finish("composeWith", self, <<function>>, composeWith(self, function))

Remesh ==
    /\ Len(heap) < MaxObjs
    /\ \E self \in DOMAIN heap, new_mesh \in Meshes :
          Finish("remesh", self, <<Array(new_mesh)>>, remesh(self, Array(new_mesh)))

Reinterpolate ==
    \E self \in DOMAIN heap :
       /\ heap0' = heap
       /\ heap' = [heap EXCEPT ![self].f = reinterpolate(self)]
       /\ ret' = [op |-> "reinterpolate", self |-> self, args |-> <<>>, exc |-> "",
                  val |-> None]
       /\ UNCHANGED <<born, FUNCTION_INTERPOLATION_TYPE, setCalls>>

SetInterpolationType ==
    /\ Len(setCalls) < MaxSets
    /\ \E interpolation_type \in Kinds :
          LET r == set_interpolation_type(interpolation_type)
          IN  /\ FUNCTION_INTERPOLATION_TYPE' = r.global
              /\ ret' = [op |-> "set_interpolation_type", self |-> 0,
                         args |-> <<interpolation_type>>, exc |-> "",
                         val |-> r.previous_type]
              /\ setCalls' = Append(setCalls, interpolation_type)
              /\ heap0' = heap
              /\ UNCHANGED <<heap, born>>

FindZeros ==
    \E self \in DOMAIN heap :
       Answer("find_zeros", self, <<>>, find_zeros(self))

Integrate ==
    \E fun \in DOMAIN heap, x0 \in Limits, x1 \in Limits :
       Answer("Integral.integrate", 0, <<Ref(fun), x0, x1>>, Integral_integrate(fun, x0, x1))

NewParametrized ==
    /\ Len(heap) < MaxObjs
    /\ \E domain \in DomainFactories, factory \in RelationFactories,
          names \in NameLists, parameters \in ParamVectors :
          Finish("ParametrizedFunction", 0, <<domain, factory, names, parameters>>,
                 ParametrizedFunction(domain, factory, names, parameters))

Reparametrize ==
    /\ Len(heap) < MaxObjs
    /\ \E self \in {i \in DOMAIN heap : heap[i].cls = "ParametrizedFunction"},
          params \in ParamVectors :
          Finish("reparametrize", self, <<params>>, reparametrize(self, params))

Next ==
    \/ Construct
    \/ ToFunction
    \/ Add
    \/ Sub
    \/ Pow
    \/ Mul
    \/ Truediv
    \/ Neg
    \/ Copy
    \/ Shift
    \/ Apply
    \/ ComposeWith
    \/ Remesh
    \/ Reinterpolate
    \/ SetInterpolationType
    \/ FindZeros
    \/ Integrate
    \/ NewParametrized
    \/ Reparametrize

Spec == Init /\ [][Next]_vars

\* the algebra of Functions: Functions are built from closed forms first, and
\* the operators combine them
NextAlgebra ==
    \/ (Len(heap) < MaxSources /\ Construct)
    \/ Add
    \/ Sub
    \/ Pow
    \/ Mul
    \/ Truediv
    \/ Neg

SpecAlgebra == Init /\ [][NextAlgebra]_vars

\* reconstruction: one Function is built from a closed form, and is then
\* remeshed and reinterpolated while the interpolation kind changes
NextMesh ==
    \/ (heap = <<>> /\ Construct)
    \/ (Len(heap) < MaxMeshed /\ Remesh)
    \/ Reinterpolate
    \/ SetInterpolationType

SpecMesh == Init /\ [][NextMesh]_vars

\* one Function is built, from a closed form or from samples, and queried
NextQuery ==
    \/ (heap = <<>> /\ Construct)
    \/ ToFunction
    \/ FindZeros
    \/ Integrate

SpecQuery == Init /\ [][NextQuery]_vars

\* parametrized Functions
NextParam ==
    \/ NewParametrized
    \/ Reparametrize

SpecParam == Init /\ [][NextParam]_vars

\* aliasing: one Function is built from a closed form, others are derived
\* from it, and any of them is reinterpolated
NextAlias ==
    \/ (heap = <<>> /\ Construct)
    \/ (Len(heap) < MaxAliased /\ Add)
    \/ (Len(heap) < MaxAliased /\ Sub)
    \/ (Len(heap) < MaxAliased /\ Pow)
    \/ (Len(heap) < MaxAliased /\ Mul)
    \/ (Len(heap) < MaxAliased /\ Truediv)
    \/ (Len(heap) < MaxAliased /\ Neg)
    \/ (Len(heap) < MaxAliased /\ Copy)
    \/ (Len(heap) < MaxAliased /\ Shift)
    \/ (Len(heap) < MaxAliased /\ Apply)
    \/ (Len(heap) < MaxAliased /\ ComposeWith)
    \/ Reinterpolate

SpecAlias == Init /\ [][NextAlias]_vars

(* ------------------------------ claims --------------------------------- *)
\* what the claims say of the last call
Receiver == ret.self
Argument(i) == ret.args[i]
Created == ret.exc = "" /\ IsFunction(ret.val) /\ ret.val.id = Len(heap)
               /\ Len(heap) = Len(heap0) + 1
\* every object that existed before the last call is as it was
OthersUnchanged ==
    /\ Len(heap0) <= Len(heap)
    /\ \A i \in DOMAIN heap0 : heap[i] = heap0[i]
\* differences not all equal to the first one
Uneven(d) == \E i \in 1..(Len(d) - 1) : d[i + 1] - d[i] # d[2] - d[1]

OperatorName ==
    CASE ret.op = "__add__" -> "add"
      [] ret.op = "__sub__" -> "sub"
      [] ret.op = "__mul__" -> "mul"
      [] ret.op = "__truediv__" -> "truediv"
      [] ret.op = "__pow__" -> "pow"

\* the value of operand o at the coordinate x
OperandAt(o, x) == IF IsFunction(o) THEN Call(heap[o.id].f, x, heap) ELSE o.v

\* C1: each of f + o, f - o, f * o, f / o (o nonzero on f's domain) and f ** o,
\* for o a Function or an int, float or complex scalar, returns a new Function
\* on f's domain whose eval() is the elementwise combination of f.eval() with
\* o's values on that domain; f and o are left unchanged.
C1_BinaryOperators ==
    (/\ ret.op \in {"__add__", "__sub__", "__mul__", "__truediv__", "__pow__"}
     /\ Argument(1).k \in {"Function", "int", "float", "complex"}
     /\ ret.op = "__truediv__" =>
           \A i \in DOMAIN heap[Receiver].dom :
              OperandAt(Argument(1), heap[Receiver].dom[i]) # CZero)
    => /\ Created
       /\ heap[Len(heap)].cls = "Function"
       /\ heap[Len(heap)].dom = heap[Receiver].dom
       /\ Len(heap[Receiver].dom) >= 2
       /\ eval(Len(heap)) =
             [i \in 1..Len(heap[Receiver].dom) |->
                 BinaryOp(OperatorName, eval(Receiver)[i],
                          OperandAt(Argument(1), heap[Receiver].dom[i]))]
       /\ OthersUnchanged

\* a quotient of two Functions on different domains has been built
C1_Witness ==
    /\ ret.op = "__truediv__"
    /\ Created
    /\ IsFunction(Argument(1))
    /\ heap[Argument(1).id].dom # heap[Receiver].dom
    /\ \A i \in DOMAIN heap[Receiver].dom :
          OperandAt(Argument(1), heap[Receiver].dom[i]) # CZero

\* C2: Function(domain, relation) with a domain of 2 or more points whose
\* differences are not all equal to the first raises the invalid-domain error
\* and builds no object, whatever the relation argument is.
C2_UnevenDomainRejected ==
    (ret.op = "Function" /\ Len(Argument(1).v) >= 2 /\ Uneven(Argument(1).v))
    => (ret.exc = ERR_DOMAIN /\ heap = heap0)

\* Function([0, 1, 3], 1) has raised the invalid-domain error
C2_Witness ==
    /\ ret.op = "Function"
    /\ Argument(1).v = <<0, 1, 3>>
    /\ ~callable(Argument(2))
    /\ ret.exc = ERR_DOMAIN

\* C3: is_evenly_spaced_domain is true of every domain of zero or one element,
\* so that Function(domain, relation) and Function.to_function(domain, samples)
\* on such a domain succeed.
C3_TrivialDomainsValid ==
    (/\ ret.op \in {"Function", "Function.to_function"}
     /\ Len(Argument(1).v) <= 1
     /\ ret.op = "Function" => callable(Argument(2)))
    => /\ is_evenly_spaced_domain(Argument(1)) = Return(TRUE)
       /\ Created

RealAt(self, i) == Call(heap[self].f, heap[self].dom[i], heap).re

\* the i-th sample has a nonzero real part of the sign opposite to that of the
\* most recent earlier sample with a nonzero real part
SignFlip(self, i) ==
    /\ i >= 2
    /\ \E j \in 1..(i - 1) :
          /\ RealAt(self, j).n # 0
          /\ \A l \in (j + 1)..(i - 1) : RealAt(self, l).n = 0
          /\ QNegative(QMul(RealAt(self, j), RealAt(self, i)))

SignFlips(self) == {i \in DOMAIN heap[self].dom : SignFlip(self, i)}

\* the domain restricted to the bounds x0, x1 of Integral.integrate
Restricted(dom, x0, x1) ==
    IF is_None(x0) /\ is_None(x1) THEN dom ELSE vslice(dom, x0, x1)

\* C5: Integral.integrate(fn, x0, x1) does not raise and returns the
\* trapezoidal sum of fn's samples with the first-interval spacing as step, over
\* the full domain when both bounds are None and over [x0, x1] otherwise.
C5_IntegrateTrapezoid ==
    ret.op = "Integral.integrate"
    => /\ ret.exc = ""
       /\ LET dom == Restricted(heap[Argument(1).id].dom, Argument(2), Argument(3))
          IN  Len(dom) >= 2 =>
                 ret.val = trapz(CallArray(heap[Argument(1).id].f, dom, heap), get_dx(dom))

\* C6: find_zeros returns, in domain order, exactly the domain points at which
\* the real part of the samples flips its sign; the result is not empty when
\* the real parts take a negative and a positive value.
C6_OnePointPerSignFlip ==
    ret.op = "find_zeros"
    => /\ ret.exc = ""
       /\ Len(ret.val) = Cardinality(SignFlips(Receiver))
       /\ Range(ret.val) = {heap[Receiver].dom[i] : i \in SignFlips(Receiver)}
       /\ \A i \in 1..(Len(ret.val) - 1) : ret.val[i] < ret.val[i + 1]
       /\ (\E i, j \in DOMAIN heap[Receiver].dom :
              QNegative(RealAt(Receiver, i)) /\ QPositive(RealAt(Receiver, j)))
          => ret.val # <<>>

\* C7: ParametrizedFunction built with a plain grid as domain succeeds, its
\* domain is the grid, and its domain factory returns the grid for every
\* parameter vector.
C7_ConstantDomainFactory ==
    (/\ ret.op = "ParametrizedFunction"
     /\ ~callable(Argument(1))
     /\ callable(Argument(2))
     /\ Len(Argument(3)) = Len(Argument(4)))
    => /\ Created
       /\ get_domain(Len(heap)) = Argument(1).v
       /\ \A p \in ParamVectors :
             CallFactory(get_domain_factory(Len(heap)), p) = Return(Argument(1))

C9_Reparametrize ==
    (/\ ret.op = "reparametrize"
     /\ Len(Argument(1)) = Len(get_param_names(Receiver))
     /\ Len(Argument(1)) > 0)
    => /\ Created
       /\ heap[Len(heap)].cls = "ParametrizedFunction"
       /\ get_domain_factory(Len(heap)) = get_domain_factory(Receiver)
       /\ get_function_factory(Len(heap)) = get_function_factory(Receiver)
       /\ get_param_names(Len(heap)) = get_param_names(Receiver)
       /\ get_params(Len(heap)) = Argument(1)
       /\ get_domain(Len(heap)) = <<0, Argument(1)[1] \div 2, Argument(1)[1]>>
       /\ get_function(Len(heap)) =
             [k |-> "scaled", m |-> CInt(Argument(1)[Len(Argument(1))])]
       /\ OthersUnchanged

\* a ParametrizedFunction with parameters [2, 2] has been reparametrized with
\* [4, 2], and the new domain spans [0, 4]
C9_Witness ==
    /\ ret.op = "reparametrize"
    /\ Created
    /\ get_params(Receiver) = <<2, 2>>
    /\ Argument(1) = <<4, 2>>
    /\ get_domain(Len(heap)) = <<0, 2, 4>>
    /\ get_domain(Receiver) = <<0, 1, 2>>

\* the kind in effect according to the calls of set_interpolation_type so far
KindInEffect == IF setCalls = <<>> THEN "linear" ELSE setCalls[Len(setCalls)]

\* C10: the default kind is 'linear' at first, each set_interpolation_type call
\* returns the kind in effect just before it, and every reconstruction uses the
\* kind in effect when it is made.
C10_InterpolationKind ==
    /\ FUNCTION_INTERPOLATION_TYPE = KindInEffect
    /\ ret.op = "set_interpolation_type"
          => ret.val = (IF Len(setCalls) = 1 THEN "linear"
                        ELSE setCalls[Len(setCalls) - 1])
    /\ ret.op = "reinterpolate"
          => (get_function(Receiver).k = "interp"
              /\ get_function(Receiver).kind = KindInEffect)
    /\ (ret.op = "remesh" /\ Created)
          => (get_function(Len(heap)).k = "interp"
              /\ get_function(Len(heap)).kind = KindInEffect)

\* after two set_interpolation_type calls a Function has been reinterpolated
\* with a kind other than the one in effect when it was built
C10_Witness ==
    /\ ret.op = "reinterpolate"
    /\ Len(setCalls) = 2
    /\ setCalls[1] # setCalls[2]
    /\ get_function(Receiver).kind # born[Receiver].kind

\* the inputs at which a Function is probed: the grid, the points between
\* grid points and points on either side of every domain
Inputs == (0 - 1)..(MaxCoord + 2)

\* the operators and compositions that derive a Function from another
Derivations ==
    {"__add__", "__sub__", "__mul__", "__truediv__", "__pow__", "__neg__",
     "apply", "composeWith", "shift", "copy"}

\* C11: reinterpolate changes only its receiver: every Function derived
\* earlier by an operator or a composition has, after the call, the value it
\* had before the call at every input.
C11_ReinterpolateFrame ==
    ret.op = "reinterpolate"
       => \A h \in DOMAIN heap :
             (h # Receiver /\ born[h].by \in Derivations)
                => \A x \in Inputs :
                      Call(heap[h].f, x, heap) = Call(heap0[h].f, x, heap0)

=============================================================================
